---- MODULE Spec2Model ----
(***************************************************************************)
(* Annotation persistence and synchronisation model of src/app.py: the     *)
(* in-memory Annotation Map, the local CSV file (outputs/anotacje.csv),    *)
(* the remote Drive object, the cursor and the dirty flag, driven by the   *)
(* Streamlit callbacks navigate_previous / navigate_next /                 *)
(* save_to_local_file / save_to_drive and the re-fetch button of main().   *)
(*                                                                         *)
(* Text is modelled as sequences of one-character strings, so that         *)
(* ",".join / str.split / pandas' column type inference are computed.      *)
(* A file is a sequence of lines, a line a sequence of ';'-separated       *)
(* fields, a field a sequence of characters.                               *)
(***************************************************************************)
EXTENDS Integers, Sequences, FiniteSets, TLC

\* ------------------------------------------------------------------ bounds
\* user operations (widget edits and button clicks) followed in one session
MaxOps == 5
\* I/O operations (local writes, transfers) that fail in one session
MaxFaults == 1
\* keys of the maps the Local Codec is exercised on
MaxCodecKeys == 2

\* ------------------------------------------------------------ text helpers
Digits == {"0", "1", "2", "3", "4", "5", "6", "7", "8", "9"}

DigitVal(c) ==
    CASE c = "0" -> 0 [] c = "1" -> 1 [] c = "2" -> 2 [] c = "3" -> 3
      [] c = "4" -> 4 [] c = "5" -> 5 [] c = "6" -> 6 [] c = "7" -> 7
      [] c = "8" -> 8 [] c = "9" -> 9

DigitChr(d) ==
    CASE d = 0 -> "0" [] d = 1 -> "1" [] d = 2 -> "2" [] d = 3 -> "3"
      [] d = 4 -> "4" [] d = 5 -> "5" [] d = 6 -> "6" [] d = 7 -> "7"
      [] d = 8 -> "8" [] d = 9 -> "9"

Range(s) == {s[i] : i \in 1..Len(s)}

\* index of the first occurrence of character c in s, 0 when there is none
FirstIndex(s, c) ==
    IF \E i \in 1..Len(s) : s[i] = c
    THEN CHOOSE i \in 1..Len(s) : s[i] = c /\ \A j \in 1..(i - 1) : s[j] # c
    ELSE 0

\* Python sep.join(parts) over character sequences
RECURSIVE Join(_, _)
Join(parts, sep) ==
    IF parts = <<>> THEN <<>>
    ELSE IF Len(parts) = 1 THEN parts[1]
    ELSE parts[1] \o <<sep>> \o Join(Tail(parts), sep)

\* Python s.split(sep): always at least one part, empty parts are kept
RECURSIVE Split(_, _)
Split(s, sep) ==
    LET i == FirstIndex(s, sep) IN
    IF i = 0 THEN <<s>>
    ELSE <<SubSeq(s, 1, i - 1)>> \o Split(SubSeq(s, i + 1, Len(s)), sep)

\* int(text) for a digit string
RECURSIVE IntOfDigits(_)
IntOfDigits(s) ==
    IF s = <<>> THEN 0
    ELSE 10 * IntOfDigits(SubSeq(s, 1, Len(s) - 1)) + DigitVal(s[Len(s)])

\* str(n) for n >= 0
RECURSIVE StrOfInt(_)
StrOfInt(n) ==
    IF n < 10 THEN <<DigitChr(n)>>
    ELSE StrOfInt(n \div 10) \o <<DigitChr(n % 10)>>

\* the fraction digits of a float's repr: trailing zeros dropped, "0" if none
RECURSIVE StripTrailingZeros(_)
StripTrailingZeros(s) ==
    IF s # <<>> /\ s[Len(s)] = "0" THEN StripTrailingZeros(SubSeq(s, 1, Len(s) - 1))
    ELSE s

\* ------------------------------------------------------ the corpus' labels
CatX == <<"X">>
CatY == <<"Y">>
\* load_categories(): the vocabulary, sorted
Categories == <<CatX, CatY>>

\* -------------------------------------------------------- Annotation Map
\* A Python dict keeps insertion order: the map is a sequence of entries
\* [id, cats] with distinct ids.
EmptyMap == <<>>
Keys(m) == {m[i].id : i \in 1..Len(m)}
HasKey(m, k) == k \in Keys(m)
KeyIndex(m, k) == CHOOSE i \in 1..Len(m) : m[i].id = k
\* dict.get(k, default)
Get(m, k, default) == IF HasKey(m, k) THEN m[KeyIndex(m, k)].cats ELSE default
\* m[k] = v: an existing key keeps its position, a new key goes last
Put(m, k, v) ==
    IF HasKey(m, k)
    THEN [m EXCEPT ![KeyIndex(m, k)] = [id |-> k, cats |-> v]]
    ELSE Append(m, [id |-> k, cats |-> v])
\* equality of dicts: same keys, same list under each key (order of keys free)
SameMap(m1, m2) ==
    /\ Keys(m1) = Keys(m2)
    /\ \A k \in Keys(m1) : Get(m1, k, <<>>) = Get(m2, k, <<>>)

\* ------------------------------------------------------------- Local Codec
ID_COL == <<"i", "d">>
KAT_COL == <<"k", "a", "t", "e", "g", "o", "r", "i", "e">>
BlankLine == << <<>> >>
NoFile == [exists |-> FALSE, data |-> <<>>]
FileOf(lines) == [exists |-> TRUE, data |-> lines]

\* DataFrame(rows).to_csv(sep=";", index=False): a frame built from no rows
\* has no columns and is written as one empty line
ToCsv(m) ==
    IF m = <<>> THEN <<BlankLine>>
    ELSE << <<ID_COL, KAT_COL>> >>
         \o [i \in 1..Len(m) |-> <<m[i].id, Join(m[i].cats, ",")>>]

\* pandas' default NA markers among the texts the model writes
NaTexts == {<<>>, <<"n", "a", "n">>, <<"N", "A">>}
IsIntLit(s) == s # <<>> /\ Range(s) \subseteq Digits
IsFloatLit(s) ==
    LET i == FirstIndex(s, ".") IN
    /\ i > 0
    /\ Len(s) > 1
    /\ Range(SubSeq(s, 1, i - 1)) \subseteq Digits
    /\ Range(SubSeq(s, i + 1, Len(s))) \subseteq Digits

NanCell == [t |-> "nan", v |-> 0, f |-> <<>>, s |-> <<>>]
IntCell(n) == [t |-> "int", v |-> n, f |-> <<>>, s |-> <<>>]
FloatCell(n, frac) == [t |-> "float", v |-> n, f |-> StripTrailingZeros(frac), s |-> <<>>]
StrCell(txt) == [t |-> "str", v |-> 0, f |-> <<>>, s |-> txt]

\* read_csv infers one dtype per column from all of its fields
ColType(fields) ==
    LET vals == {fields[i] : i \in 1..Len(fields)} \ NaTexts IN
    IF vals = {} THEN "float"
    ELSE IF \A x \in vals : IsIntLit(x)
         THEN (IF Range(fields) \cap NaTexts = {} THEN "int" ELSE "float")
    ELSE IF \A x \in vals : IsIntLit(x) \/ IsFloatLit(x) THEN "float"
    ELSE "object"

ParseCell(txt, dtype) ==
    IF txt \in NaTexts THEN NanCell
    ELSE IF dtype = "int" THEN IntCell(IntOfDigits(txt))
    ELSE IF dtype = "float"
         THEN (IF IsIntLit(txt) THEN FloatCell(IntOfDigits(txt), <<>>)
               ELSE LET i == FirstIndex(txt, ".") IN
                    FloatCell(IntOfDigits(SubSeq(txt, 1, i - 1)),
                              SubSeq(txt, i + 1, Len(txt))))
    ELSE StrCell(txt)

\* df.iterrows() yields each row as one Series: when every column is numeric
\* the row takes their common dtype, so an int next to a float column is
\* handed out as a float
RowCell(cell, dtypes) ==
    IF cell.t = "int" /\ "object" \notin dtypes /\ "float" \in dtypes
    THEN FloatCell(cell.v, <<>>)
    ELSE cell

\* str(value) of a cell
StrOfCell(cell) ==
    CASE cell.t = "nan" -> <<"n", "a", "n">>
      [] cell.t = "int" -> StrOfInt(cell.v)
      [] cell.t = "float" ->
            StrOfInt(cell.v) \o <<".">> \o (IF cell.f = <<>> THEN <<"0">> ELSE cell.f)
      [] cell.t = "str" -> cell.s

\* the field of a row under a column, "" where the row is too short
FieldAt(row, pos) == IF pos <= Len(row) THEN row[pos] ELSE <<>>
Column(rows, pos) == [i \in 1..Len(rows) |-> FieldAt(rows[i], pos)]

\* pd.read_csv(filepath, sep=";"): blank lines are skipped, the first line
\* left is the header; data rows longer than the header make their leading
\* fields an implicit index when the first data row is that long, and are a
\* tokenizing error otherwise; no line at all is an EmptyDataError
NonBlank(lines) == SelectSeq(lines, LAMBDA l : l # BlankLine)
CsvHeader(lines) == NonBlank(lines)[1]
CsvRows(lines) == Tail(NonBlank(lines))
CsvLead(lines) ==
    LET hdr == CsvHeader(lines)
        rows == CsvRows(lines) IN
    IF rows # <<>> /\ Len(rows[1]) > Len(hdr) THEN Len(rows[1]) - Len(hdr) ELSE 0
ReadCsvFails(lines) ==
    \/ NonBlank(lines) = <<>>
    \/ \E i \in 1..Len(CsvRows(lines)) :
          Len(CsvRows(lines)[i]) > Len(CsvHeader(lines)) + CsvLead(lines)

\* the dtypes of the frame's columns
FrameTypes(lines) ==
    {ColType(Column(CsvRows(lines), CsvLead(lines) + j)) : j \in 1..Len(CsvHeader(lines))}

\* row[name] as iterrows hands it out
RowValue(lines, i, name) ==
    LET pos == CsvLead(lines) + FirstIndex(CsvHeader(lines), name)
        col == Column(CsvRows(lines), pos) IN
    RowCell(ParseCell(col[i], ColType(col)), FrameTypes(lines))

\* lines 133-138: the key and the label list one row contributes
RowId(lines, i) == StrOfCell(RowValue(lines, i, ID_COL))
RowCats(lines, i) ==
    IF FirstIndex(CsvHeader(lines), KAT_COL) = 0 THEN <<>>
    ELSE LET cats == RowValue(lines, i, KAT_COL) IN
         IF cats.t = "nan" THEN <<>> ELSE Split(StrOfCell(cats), ",")

RECURSIVE LoadRows(_, _)
LoadRows(lines, n) ==
    IF n = 0 THEN EmptyMap
    ELSE Put(LoadRows(lines, n - 1), RowId(lines, n), RowCats(lines, n))

\* load_annotations_from_csv: a missing file is the empty map, and so is
\* every exception (read_csv's errors, KeyError of row["id"])
load_annotations_from_csv(file) ==
    IF ~file.exists THEN EmptyMap
    ELSE IF ReadCsvFails(file.data) THEN EmptyMap
    ELSE IF CsvRows(file.data) = <<>> THEN EmptyMap
    ELSE IF FirstIndex(CsvHeader(file.data), ID_COL) = 0 THEN EmptyMap
    ELSE LoadRows(file.data, Len(CsvRows(file.data)))

\* faulty variant of find_first_unannotated: a key with an empty list counts
\* as annotated
find_first_unannotated_absent_only(txts, m) ==
    LET open == {i \in 1..Len(txts) : ~HasKey(m, txts[i])} IN
    IF open = {} THEN 0
    ELSE (CHOOSE i \in open : \A j \in open : i <= j) - 1
\* find_first_unannotated: 0-based index of the first record whose id is
\* absent or has no label; 0 when there is none
find_first_unannotated(txts, m) ==
    LET open == {i \in 1..Len(txts) : ~HasKey(m, txts[i]) \/ Len(Get(m, txts[i], <<>>)) = 0} IN
    IF open = {} THEN 0
    ELSE (CHOOSE i \in open : \A j \in open : i <= j) - 1

\* ------------------------------------------------------------ environment
\* load_texts(): the ids of the corpus, in file order; an empty corpus file
\* is readable too
Corpus123 == << <<"1">>, <<"2">>, <<"3">> >>
Corpora == {<<>>, Corpus123}

\* what outputs/anotacje.csv holds when the session starts
StartLocalFiles ==
    { NoFile,
      FileOf(ToCsv(<<[id |-> <<"2">>, cats |-> <<CatX>>]>>)) }
\* what the Drive object holds when the session starts
StartRemoteObjects ==
    { <<>>,
      ToCsv(<<[id |-> <<"1">>, cats |-> <<CatY>>]>>) }

VARIABLES
    texts,                  \* load_texts(): the corpus ids
    codec_input,            \* the map handed to the Local Codec (codec runs only)
    remoteKind,             \* "none": no Drive; "nofile": Drive without the object; "file"
    remote,                 \* the content of the Drive object
    localFile,              \* LOCAL_OUTPUT: [exists, data]
    pc,                     \* position of the session: boot, loadmap, cursor, viewing, crashed
    drive_service,          \* st.session_state.drive_service is set
    drive_file_id,          \* st.session_state.drive_file_id is set
    drive_download_reason,  \* st.session_state.drive_download_reason
    annotations,            \* st.session_state.annotations
    current_index,          \* st.session_state.current_index
    unsaved_changes,        \* st.session_state.unsaved_changes
    widget,                 \* st.session_state["cat_<id>"] of the displayed record
    ops,                    \* number of user operations so far
    faults,                 \* number of failed I/O operations so far
    op,                     \* the operation the last step performed
    ok,                     \* what that operation returned
    calls                   \* the Remote Mirror / Local Codec calls of the last step, in order

vars == <<texts, codec_input, remoteKind, remote, localFile, pc, drive_service, drive_file_id,
          drive_download_reason, annotations, current_index, unsaved_changes,
          widget, ops, faults, op, ok, calls>>

env == <<texts, codec_input, remoteKind>>
handle == <<drive_service, drive_file_id, drive_download_reason>>

Init ==
    /\ texts \in Corpora
    /\ codec_input = EmptyMap
    /\ remoteKind \in {"none", "nofile", "file"}
    /\ remote \in (IF remoteKind = "file" THEN StartRemoteObjects ELSE {<<>>})
    /\ localFile \in StartLocalFiles
    /\ pc = "boot"
    /\ drive_service = FALSE
    /\ drive_file_id = FALSE
    /\ drive_download_reason = "unset"
    /\ annotations = EmptyMap
    /\ current_index = 0
    /\ unsaved_changes = FALSE
    /\ widget = <<>>
    /\ ops = 0
    /\ faults = 0
    /\ op = "none"
    /\ ok = TRUE
    /\ calls = <<>>

\* a step may fail n more I/O operations
MayFail(n) == faults + n <= MaxFaults
Count(b) == IF b THEN 1 ELSE 0

\* ------------------------------------------------------------- Remote Mirror
\* faulty variant of download_from_drive: an existing local file is kept
download_from_drive_if_missing(network) ==
    IF network /\ ~localFile.exists THEN FileOf(remote) ELSE localFile
\* faulty variant of download_from_drive: the local file is opened for
\* writing before the transfer, so a failed transfer leaves it empty
download_from_drive_streaming(network) ==
    IF network THEN FileOf(remote) ELSE FileOf(<<>>)
\* download_from_drive: on success the local file is the remote content; a
\* failed transfer leaves the local file alone
download_from_drive(network) ==
    IF network THEN FileOf(remote) ELSE localFile

\* upload_to_drive of a local file: MediaFileUpload raises on a missing file
upload_succeeds(file, network) == file.exists /\ network
\* faulty variant of upload_to_drive: a remote object that has content is kept
upload_to_drive_if_empty(file, network) ==
    IF upload_succeeds(file, network) /\ remote = <<>> THEN file.data ELSE remote
upload_to_drive(file, network) ==
    IF upload_succeeds(file, network) THEN file.data ELSE remote

\* --------------------------------------------------------------- startup
\* init_google_drive as the session sees it: (service, file_id)
\* variant of init_google_drive that creates the file when the folder listing
\* is empty and returns the new id
init_google_drive_create == [service |-> remoteKind # "none", file_id |-> remoteKind # "none"]
init_google_drive == [service |-> remoteKind # "none", file_id |-> remoteKind = "file"]

\* faulty variant of local_file_missing: the startup download is unconditional
local_file_missing_always(file) == TRUE
\* line 191: not os.path.exists(LOCAL_OUTPUT)
local_file_missing(file) == ~file.exists

\* init_session_state, lines 180-205: resolve the Drive handle once, then
\* download only when the local file does not exist
InitDrive(network) ==
    /\ pc = "boot"
    /\ drive_service' = init_google_drive.service
    /\ drive_file_id' = init_google_drive.file_id
    /\ IF drive_service' /\ drive_file_id'
       THEN IF local_file_missing(localFile)
            THEN /\ network \/ MayFail(1)
                 /\ localFile' = download_from_drive(network)
                 /\ drive_download_reason' = "local_file_missing"
                 /\ ok' = network
                 /\ faults' = faults + Count(~network)
                 /\ calls' = <<"download">>
            ELSE /\ network
                 /\ drive_download_reason' = "local_file_exists_skipped"
                 /\ ok' = FALSE
                 /\ calls' = <<>>
                 /\ UNCHANGED <<localFile, faults>>
       ELSE /\ network
            /\ drive_download_reason' = "drive_not_available"
            /\ ok' = FALSE
            /\ calls' = <<>>
            /\ UNCHANGED <<localFile, faults>>
    /\ pc' = "loadmap"
    /\ op' = "init_drive"
    /\ UNCHANGED <<env, remote, annotations, current_index, unsaved_changes, widget, ops>>

\* init_session_state, lines 208-211
LoadMap ==
    /\ pc = "loadmap"
    /\ annotations' = load_annotations_from_csv(localFile)
    /\ pc' = "cursor"
    /\ op' = "load_map"
    /\ ok' = TRUE
    /\ calls' = <<"load">>
    /\ UNCHANGED <<env, remote, localFile, handle, current_index, unsaved_changes,
                   widget, ops, faults>>

\* the displayed record's id, main() lines 354-356; no id where the index
\* is outside the corpus
DisplayedId(i) == IF i + 1 \in 1..Len(texts) THEN texts[i + 1] ELSE <<>>

\* init_session_state, lines 214-219, and the first run of main() up to the
\* multiselect: texts.iloc[current_index] raises on an empty corpus
InitCursor ==
    /\ pc = "cursor"
    /\ current_index' = find_first_unannotated(texts, annotations)
    /\ unsaved_changes' = FALSE
    /\ IF Len(texts) = 0
       THEN /\ pc' = "crashed"
            /\ ok' = FALSE
            /\ UNCHANGED widget
       ELSE /\ pc' = "viewing"
            /\ ok' = TRUE
            /\ widget' = Get(annotations, DisplayedId(current_index'), <<>>)
    /\ op' = "init_cursor"
    /\ calls' = <<>>
    /\ UNCHANGED <<env, remote, localFile, handle, annotations, ops, faults>>

\* faulty variant of done: every key of the dict is counted
done_all_keys(m) == Len(m)
\* main() line 434: the number of annotated records shown as progress
done(m) == Cardinality({i \in 1..Len(m) : Len(m[i].cats) > 0})

\* ------------------------------------------------------ session operations
\* faulty variant of capture_current_selection: an emptied selection deletes
\* the record's key instead of storing an empty list
capture_current_selection_drop_empty(m, id, sel) ==
    IF Get(m, id, <<>>) = sel THEN m
    ELSE IF sel = <<>> THEN SelectSeq(m, LAMBDA e : e.id # id)
    ELSE Put(m, id, sel)
\* faulty variant of capture_current_selection: the selection is dropped
capture_current_selection_skip(m, id, sel) == m
\* capture_current_selection: the map after capturing selection sel of id
capture_current_selection(m, id, sel) ==
    IF Get(m, id, <<>>) # sel THEN Put(m, id, sel) ELSE m
\* ... and the dirty flag after it (line 276)
capture_unsaved(m, id, sel, dirty) ==
    IF Get(m, id, <<>>) # sel THEN TRUE ELSE dirty

\* main() lines 366-378, run after every callback: the flag is raised when
\* the widget's value differs from the stored list
render_unsaved(m, id, sel, dirty) ==
    IF sel # Get(m, id, <<>>) THEN TRUE ELSE dirty

\* faulty variants: the cursor wraps around at the ends of the corpus
previous_index_wrap(i) == IF i > 0 THEN i - 1 ELSE Len(texts) - 1
next_index_unclamped(i) == i + 1
\* navigate_previous lines 287-288, navigate_next lines 297-298
previous_index(i) == IF i > 0 THEN i - 1 ELSE i
next_index(i) == IF i < Len(texts) - 1 THEN i + 1 ELSE i

\* save_annotations_to_csv: the file after the call, by how the write went
\* ("ok"; "open_failed": the file could not be opened; "write_failed": it
\* was opened for writing, hence truncated, and the write raised)
SaveOutcomes == {"ok", "open_failed", "write_failed"}
\* faulty variant of save_annotations_to_csv: keys without labels are left out
save_annotations_to_csv_labelled(m, outcome) ==
    CASE outcome = "ok" -> FileOf(ToCsv(SelectSeq(m, LAMBDA e : e.cats # <<>>)))
      [] outcome = "open_failed" -> localFile
      [] outcome = "write_failed" -> FileOf(<<>>)
save_annotations_to_csv(m, outcome) ==
    CASE outcome = "ok" -> FileOf(ToCsv(m))
      [] outcome = "open_failed" -> localFile
      [] outcome = "write_failed" -> FileOf(<<>>)

\* the multiselect's value after the user picks or removes label l
Toggle(sel, l) ==
    IF l \in Range(sel) THEN SelectSeq(sel, LAMBDA x : x # l) ELSE Append(sel, l)

\* the user changes the multiselect of the displayed record by one label;
\* the script reruns (lines 366-378)
SetLabels(l) ==
    /\ pc = "viewing"
    /\ ops < MaxOps
    /\ widget' = Toggle(widget, l)
    /\ unsaved_changes' =
          render_unsaved(annotations, DisplayedId(current_index), widget', unsaved_changes)
    /\ ops' = ops + 1
    /\ op' = "set_labels"
    /\ ok' = TRUE
    /\ calls' = <<>>
    /\ UNCHANGED <<env, remote, localFile, pc, handle, annotations, current_index, faults>>

\* faulty variant of Navigate: the callback also writes the map to disk
Navigate_autosave(name, target) ==
    LET id == DisplayedId(current_index)
        m == capture_current_selection(annotations, id, widget)
        w == IF target # current_index THEN Get(m, DisplayedId(target), <<>>) ELSE widget
    IN
    /\ pc = "viewing"
    /\ ops < MaxOps
    /\ annotations' = m
    /\ localFile' = save_annotations_to_csv(m, "ok")
    /\ current_index' = target
    /\ widget' = w
    /\ unsaved_changes' = FALSE
    /\ ops' = ops + 1
    /\ op' = name
    /\ ok' = TRUE
    /\ calls' = <<>>
    /\ UNCHANGED <<env, remote, pc, handle, faults>>

\* a navigation callback moving the cursor to target, then the rerun: a
\* record displayed anew gets its stored list as the widget's value
Navigate(name, target) ==
    LET id == DisplayedId(current_index)
        m == capture_current_selection(annotations, id, widget)
        dirty == capture_unsaved(annotations, id, widget, unsaved_changes)
        w == IF target # current_index THEN Get(m, DisplayedId(target), <<>>) ELSE widget
    IN
    /\ pc = "viewing"
    /\ ops < MaxOps
    /\ annotations' = m
    /\ current_index' = target
    /\ widget' = w
    /\ unsaved_changes' = render_unsaved(m, DisplayedId(target), w, dirty)
    /\ ops' = ops + 1
    /\ op' = name
    /\ ok' = TRUE
    /\ calls' = <<>>
    /\ UNCHANGED <<env, remote, localFile, pc, handle, faults>>

NavigatePrevious == Navigate("navigate_previous", previous_index(current_index))
NavigateNext == Navigate("navigate_next", next_index(current_index))

\* faulty variant of SaveLocal: the flag is cleared whatever the write did
SaveLocal_always_clear(outcome) ==
    LET id == DisplayedId(current_index)
        m == capture_current_selection(annotations, id, widget)
    IN
    /\ pc = "viewing"
    /\ ops < MaxOps
    /\ outcome = "ok" \/ MayFail(1)
    /\ annotations' = m
    /\ localFile' = save_annotations_to_csv(m, outcome)
    /\ unsaved_changes' = render_unsaved(m, id, widget, FALSE)
    /\ ops' = ops + 1
    /\ faults' = faults + Count(outcome # "ok")
    /\ op' = "save_local"
    /\ ok' = (outcome = "ok")
    /\ calls' = <<"save">>
    /\ UNCHANGED <<env, remote, pc, handle, current_index, widget>>

\* save_to_local_file, then the rerun
SaveLocal(outcome) ==
    LET id == DisplayedId(current_index)
        m == capture_current_selection(annotations, id, widget)
        dirty == capture_unsaved(annotations, id, widget, unsaved_changes)
    IN
    /\ pc = "viewing"
    /\ ops < MaxOps
    /\ outcome = "ok" \/ MayFail(1)
    /\ annotations' = m
    /\ localFile' = save_annotations_to_csv(m, outcome)
    /\ unsaved_changes' =
          render_unsaved(m, id, widget, IF outcome = "ok" THEN FALSE ELSE dirty)
    /\ ops' = ops + 1
    /\ faults' = faults + Count(outcome # "ok")
    /\ op' = "save_local"
    /\ ok' = (outcome = "ok")
    /\ calls' = <<"save">>
    /\ UNCHANGED <<env, remote, pc, handle, current_index, widget>>

\* faulty variant of SaveRemote: the Drive handle is checked before the
\* local save, which is skipped when there is no handle
SaveRemote_handle_first(outcome, network) ==
    LET id == DisplayedId(current_index)
        m == capture_current_selection(annotations, id, widget)
        dirty == capture_unsaved(annotations, id, widget, unsaved_changes)
        uploading == drive_service /\ drive_file_id
        file == IF uploading THEN save_annotations_to_csv(m, outcome) ELSE localFile
    IN
    /\ pc = "viewing"
    /\ ops < MaxOps
    /\ network \/ (uploading /\ file.exists)
    /\ MayFail(Count(outcome # "ok") + Count(~network))
    /\ annotations' = m
    /\ localFile' = file
    /\ unsaved_changes' = IF uploading /\ outcome = "ok" THEN FALSE ELSE dirty
    /\ IF uploading
       THEN /\ remote' = upload_to_drive(file, network)
            /\ ok' = upload_succeeds(file, network)
            /\ calls' = <<"save", "upload">>
       ELSE /\ ok' = FALSE
            /\ calls' = <<"save">>
            /\ UNCHANGED remote
    /\ ops' = ops + 1
    /\ faults' = faults + Count(outcome # "ok") + Count(~network)
    /\ op' = "save_remote"
    /\ UNCHANGED <<env, pc, handle, current_index, widget>>

\* save_to_drive, then the rerun
SaveRemote(outcome, network) ==
    LET id == DisplayedId(current_index)
        m == capture_current_selection(annotations, id, widget)
        dirty == capture_unsaved(annotations, id, widget, unsaved_changes)
        file == save_annotations_to_csv(m, outcome)
        uploading == drive_service /\ drive_file_id
    IN
    /\ pc = "viewing"
    /\ ops < MaxOps
    /\ network \/ (uploading /\ file.exists)
    /\ MayFail(Count(outcome # "ok") + Count(~network))
    /\ annotations' = m
    /\ localFile' = file
    /\ unsaved_changes' =
          render_unsaved(m, id, widget, IF outcome = "ok" THEN FALSE ELSE dirty)
    /\ IF uploading
       THEN /\ remote' = upload_to_drive(file, network)
            /\ ok' = upload_succeeds(file, network)
            /\ calls' = <<"save", "upload">>
       ELSE /\ ok' = FALSE
            /\ calls' = <<"save">>
            /\ UNCHANGED remote
    /\ ops' = ops + 1
    /\ faults' = faults + Count(outcome # "ok") + Count(~network)
    /\ op' = "save_remote"
    /\ UNCHANGED <<env, pc, handle, current_index, widget>>

\* faulty variant of ReloadFromRemote: the button handler checks the Drive
\* service only and downloads without a file id
ReloadFromRemote_service_only(network, keep) ==
    LET id == DisplayedId(current_index)
        file == download_from_drive(network)
        m == load_annotations_from_csv(file)
        w == IF keep THEN widget ELSE Get(m, id, <<>>)
        downloading == drive_service
    IN
    /\ pc = "viewing"
    /\ ops < MaxOps
    /\ network \/ (downloading /\ MayFail(1))
    /\ IF downloading
       THEN /\ localFile' = file
            /\ ok' = network
            /\ IF network
               THEN /\ annotations' = m
                    /\ widget' = w
                    /\ unsaved_changes' = render_unsaved(m, id, w, unsaved_changes)
                    /\ calls' = <<"download", "load">>
               ELSE /\ calls' = <<"download">>
                    /\ UNCHANGED <<annotations, widget, unsaved_changes>>
       ELSE /\ ok' = FALSE
            /\ calls' = <<>>
            /\ UNCHANGED <<localFile, annotations, widget, unsaved_changes>>
    /\ ops' = ops + 1
    /\ faults' = faults + Count(~network)
    /\ op' = "reload"
    /\ UNCHANGED <<env, remote, pc, handle, current_index>>

\* the re-fetch button, main() lines 507-520, and the rerun it asks for.
\* Whether the multiselect keeps its value when its default changed under
\* it depends on the Streamlit build: keep chooses.
ReloadFromRemote(network, keep) ==
    LET id == DisplayedId(current_index)
        file == download_from_drive(network)
        m == load_annotations_from_csv(file)
        same == Get(m, id, <<>>) = Get(annotations, id, <<>>)
        w == IF keep THEN widget ELSE Get(m, id, <<>>)
        downloading == drive_service /\ drive_file_id
    IN
    /\ pc = "viewing"
    /\ ops < MaxOps
    /\ network \/ (downloading /\ MayFail(1))
    /\ keep \/ (downloading /\ network /\ ~same)
    /\ IF downloading
       THEN /\ localFile' = file
            /\ ok' = network
            /\ IF network
               THEN /\ annotations' = m
                    /\ widget' = w
                    /\ unsaved_changes' = render_unsaved(m, id, w, unsaved_changes)
                    /\ calls' = <<"download", "load">>
               ELSE /\ calls' = <<"download">>
                    /\ UNCHANGED <<annotations, widget, unsaved_changes>>
       ELSE /\ ok' = FALSE
            /\ calls' = <<>>
            /\ UNCHANGED <<localFile, annotations, widget, unsaved_changes>>
    /\ ops' = ops + 1
    /\ faults' = faults + Count(~network)
    /\ op' = "reload"
    /\ UNCHANGED <<env, remote, pc, handle, current_index>>

Next ==
    \/ \E network \in BOOLEAN : InitDrive(network)
    \/ LoadMap
    \/ InitCursor
    \/ \E i \in 1..Len(Categories) : SetLabels(Categories[i])
    \/ NavigatePrevious
    \/ NavigateNext
    \/ \E outcome \in SaveOutcomes : SaveLocal(outcome)
    \/ \E outcome \in SaveOutcomes, network \in BOOLEAN : SaveRemote(outcome, network)
    \/ \E network \in BOOLEAN, keep \in BOOLEAN : ReloadFromRemote(network, keep)

Spec == Init /\ [][Next]_vars

\* ------------------------------------------------- Local Codec on its own
\* ids as they can stand in the corpus file (any whitespace-free token) and
\* label lists, for maps of at most MaxCodecKeys keys
CodecIds == {<<"1">>, <<"0", "7">>, <<"a">>}
CodecLists == {<<>>, <<CatX>>, <<CatY, CatX>>}
CodecEntries == [id : CodecIds, cats : CodecLists]
CodecMaps ==
    UNION {{m \in [1..n -> CodecEntries] :
               \A i \in 1..n, j \in 1..n : i # j => m[i].id # m[j].id} :
           n \in 0..MaxCodecKeys}

InitCodec ==
    /\ codec_input \in CodecMaps
    /\ annotations = codec_input
    /\ texts = Corpus123
    /\ remoteKind = "none"
    /\ remote = <<>>
    /\ localFile = NoFile
    /\ pc = "codec"
    /\ drive_service = FALSE
    /\ drive_file_id = FALSE
    /\ drive_download_reason = "unset"
    /\ current_index = 0
    /\ unsaved_changes = FALSE
    /\ widget = <<>>
    /\ ops = 0
    /\ faults = 0
    /\ op = "none"
    /\ ok = TRUE
    /\ calls = <<>>

\* save_annotations_to_csv(M, path), the write going through
CodecSave ==
    /\ pc = "codec"
    /\ localFile' = save_annotations_to_csv(annotations, "ok")
    /\ pc' = "codec_saved"
    /\ op' = "codec_save"
    /\ calls' = <<"save">>
    /\ UNCHANGED <<env, remote, handle, annotations, current_index, unsaved_changes,
                   widget, ops, faults, ok>>

\* load_annotations_from_csv(path) of the file just written
CodecLoad ==
    /\ pc = "codec_saved"
    /\ annotations' = load_annotations_from_csv(localFile)
    /\ pc' = "codec_loaded"
    /\ op' = "codec_load"
    /\ calls' = <<"load">>
    /\ UNCHANGED <<env, remote, localFile, handle, current_index, unsaved_changes,
                   widget, ops, faults, ok>>

NextCodec == CodecSave \/ CodecLoad
SpecCodec == InitCodec /\ [][NextCodec]_vars

\* ------------------------------------------------- session start on its own
\* the local file a session can find at its start: none, a file an earlier
\* session saved for some records of the corpus, or such a file to which a
\* row with one field too many was added by hand
StartLists == {<<>>, <<CatX>>}
StartEntries == [id : Range(Corpus123), cats : StartLists]
StartMaps ==
    UNION {{m \in [1..n -> StartEntries] :
               \A i \in 1..n, j \in 1..n : i # j => m[i].id # m[j].id} :
           n \in 0..Len(Corpus123)}
LongRow == <<Corpus123[3], CatX, CatY>>
MalformedFiles == {FileOf(ToCsv(m) \o <<LongRow>>) : m \in StartMaps \ {EmptyMap}}
StartFiles == StartLocalFiles \cup {FileOf(ToCsv(m)) : m \in StartMaps} \cup MalformedFiles

InitStart ==
    /\ texts \in Corpora
    /\ codec_input = EmptyMap
    /\ remoteKind \in {"none", "nofile", "file"}
    /\ remote \in (IF remoteKind = "file" THEN StartRemoteObjects ELSE {<<>>})
    /\ localFile \in StartFiles
    /\ pc = "boot"
    /\ drive_service = FALSE
    /\ drive_file_id = FALSE
    /\ drive_download_reason = "unset"
    /\ annotations = EmptyMap
    /\ current_index = 0
    /\ unsaved_changes = FALSE
    /\ widget = <<>>
    /\ ops = 0
    /\ faults = 0
    /\ op = "none"
    /\ ok = TRUE
    /\ calls = <<>>

NextStart ==
    \/ \E network \in BOOLEAN : InitDrive(network)
    \/ LoadMap
    \/ InitCursor
SpecStart == InitStart /\ [][NextStart]_vars

\* ================================================================ claims
RemoteAvailable == drive_service /\ drive_file_id
Navigations == {"navigate_previous", "navigate_next"}

\* C1: at session startup an existing local file means download is not
\* invoked, whatever the remote is; with no local file and the remote
\* available download is invoked exactly once, and it is invoked before the
\* Annotation Map is loaded from the local file (the load step follows it,
\* reads the file as the download left it, and no startup step after the
\* first downloads again).
C1_StartupDownload ==
    [][ /\ pc = "boot" =>
              /\ localFile.exists => calls' = <<>> /\ localFile' = localFile
              /\ ~localFile.exists /\ remoteKind = "file" => calls' = <<"download">>
              /\ annotations' = EmptyMap /\ pc' = "loadmap"
        /\ pc = "loadmap" =>
              /\ calls' = <<"load">>
              /\ localFile' = localFile
              /\ annotations' = load_annotations_from_csv(localFile)
        /\ pc = "cursor" => calls' = <<>> /\ localFile' = localFile
      ]_vars
\* the map has been loaded from a file that the startup download wrote
C1_Witness ==
    /\ op = "load_map"
    /\ drive_download_reason = "local_file_missing"
    /\ localFile = FileOf(remote)
    /\ annotations # EmptyMap

\* C2: the local file is overwritten with remote content (download is
\* invoked) only at startup when no local file exists or by the explicit
\* reloadFromRemote action; navigate, saveLocal and saveRemote never invoke
\* download, and a navigation (with its capture) changes neither the local
\* file nor the remote object.
C2_DownloadOnlyAtStartOrReload ==
    [][ /\ "download" \in Range(calls') =>
              \/ op' = "init_drive" /\ ~localFile.exists
              \/ op' = "reload"
        /\ op' \in Navigations \cup {"save_local", "save_remote"} =>
              "download" \notin Range(calls')
        /\ op' \in Navigations => localFile' = localFile /\ remote' = remote
      ]_vars
\* a navigation has captured an edit while the local file and the remote
\* object still hold what they held at the start
C2_Witness ==
    /\ op \in Navigations
    /\ unsaved_changes
    /\ annotations # EmptyMap
    /\ annotations # load_annotations_from_csv(localFile)
    /\ localFile \in StartLocalFiles
    /\ remoteKind = "file" /\ remote \in StartRemoteObjects

\* C3: navigate captures before it moves. When the displayed record's
\* selection differs from the list stored for its id (absent key read as
\* the empty list), after navigate the map holds the selection under that
\* id and hasUnsavedEdits is true; when it equals the stored list the map
\* (the absence of the key included) and hasUnsavedEdits are unchanged.
C3_CaptureBeforeNavigate ==
    [][ op' \in Navigations =>
          LET id == DisplayedId(current_index)
              stored == Get(annotations, id, <<>>) IN
          IF widget # stored
          THEN /\ HasKey(annotations', id)
               /\ Get(annotations', id, <<>>) = widget
               /\ unsaved_changes' = TRUE
          ELSE /\ annotations' = annotations
               /\ unsaved_changes' = unsaved_changes
      ]_vars
\* navigate_next has left a record whose new selection it captured
C3_Witness ==
    /\ op = "navigate_next"
    /\ current_index = 1
    /\ Get(annotations, texts[1], <<>>) = <<CatX, CatY>>
    /\ Get(load_annotations_from_csv(localFile), texts[1], <<>>) = <<>>
    /\ unsaved_changes

\* the data rows of a written file (the lines after the header)
DataRows(file) == IF file.data = <<>> THEN <<>> ELSE Tail(file.data)
RowsOf(file, id) == {i \in 1..Len(DataRows(file)) : DataRows(file)[i][1] = id}

\* C4: after a successful saveLocal the local file holds exactly one row
\* per key of the Annotation Map, carrying that key's labels; the map
\* includes the selection of the displayed record (and, by C3, every edit a
\* navigation captured); no row exists for an id that is not a key, such as
\* a record whose selection was never changed; hasUnsavedEdits is false.
C4_SaveLocalWritesFullMap ==
    op = "save_local" /\ ok =>
        /\ localFile.exists
        /\ Len(DataRows(localFile)) = Cardinality(Keys(annotations))
        /\ \A k \in Keys(annotations) :
              /\ Cardinality(RowsOf(localFile, k)) = 1
              /\ \A i \in RowsOf(localFile, k) :
                    DataRows(localFile)[i] = <<k, Join(Get(annotations, k, <<>>), ",")>>
        /\ \A i \in 1..Len(texts) :
              ~HasKey(annotations, texts[i]) => RowsOf(localFile, texts[i]) = {}
        /\ Get(annotations, DisplayedId(current_index), <<>>) = widget
        /\ unsaved_changes = FALSE
\* records 1 and 2 were edited and left by navigation, record 3 is displayed
\* untouched, and saveLocal has written rows for 1 and 2 only
C4_Witness ==
    /\ op = "save_local" /\ ok
    /\ current_index = 2
    /\ Get(annotations, texts[1], <<>>) # <<>>
    /\ Get(annotations, texts[2], <<>>) # <<>>
    /\ ~HasKey(annotations, texts[3])
    /\ Len(DataRows(localFile)) = 2
    /\ ops = MaxOps

\* C5: saveRemote saves locally first and uploads only when the Remote
\* Mirror is available; when it is not, the operation reports failure, no
\* upload is attempted, the remote object is untouched and the local save
\* that succeeded is kept: the local file holds the freshly saved map.
C5_SaveRemoteLocalFirst ==
    [][ op' = "save_remote" =>
          /\ calls'[1] = "save"
          /\ annotations' =
                capture_current_selection(annotations, DisplayedId(current_index), widget)
          /\ "upload" \in Range(calls') <=> RemoteAvailable
          /\ ~RemoteAvailable =>
                /\ ok' = FALSE
                /\ remote' = remote
                /\ faults' = faults =>
                      /\ localFile' = FileOf(ToCsv(annotations'))
                      /\ unsaved_changes' = FALSE
      ]_vars
\* saveRemote without a Drive handle failed and left the new map on disk
C5_Witness ==
    /\ op = "save_remote"
    /\ ~RemoteAvailable
    /\ ok = FALSE
    /\ calls = <<"save">>
    /\ annotations # EmptyMap
    /\ localFile = FileOf(ToCsv(annotations))
    /\ localFile \notin StartLocalFiles

\* C6: when saveRemote runs with the remote available and the upload
\* succeeds, the remote object's content equals the local file's content,
\* whatever the remote held before.
C6_UploadOverwritesRemote ==
    op = "save_remote" /\ ok => localFile.exists /\ remote = localFile.data
\* an upload has replaced a remote object that held other content
C6_Witness ==
    /\ op = "save_remote" /\ ok
    /\ remote = ToCsv(annotations)
    /\ Get(annotations, <<"1">>, <<>>) = <<CatX>>
    /\ remote \notin StartRemoteObjects
    /\ drive_download_reason = "local_file_missing"
    /\ faults = 0

\* C7 as stated: in every session state the cursor is within the corpus.
C7_CursorInRange_AsStated ==
    pc \in {"viewing", "crashed"} => 0 <= current_index /\ current_index < Len(texts)
\* C7, amended: with a non-empty corpus the cursor is within the corpus in
\* every session state, through any sequence of navigate, saveLocal,
\* saveRemote and reloadFromRemote (on an empty corpus it is 0 = len(texts)).
C7_CursorInRange ==
    /\ pc \in {"viewing", "crashed"} /\ Len(texts) > 0 =>
          0 <= current_index /\ current_index < Len(texts)
    /\ pc = "crashed" => Len(texts) = 0 /\ current_index = 0
\* navigate_next was asked for at the last record and the cursor stayed
C7_Witness ==
    /\ pc = "viewing"
    /\ op = "navigate_next"
    /\ current_index = Len(texts) - 1
    /\ Keys(annotations) = Range(texts)

\* C8: navigate(+1) from the last index and navigate(-1) from index 0 leave
\* the cursor where it is and raise no error.
C8_NavigateAtEndsIsNoOp ==
    [][ /\ op' = "navigate_next" /\ current_index = Len(texts) - 1 =>
              current_index' = current_index /\ ok' /\ pc' = "viewing"
        /\ op' = "navigate_previous" /\ current_index = 0 =>
              current_index' = current_index /\ ok' /\ pc' = "viewing"
      ]_vars
\* the first operation of a session that started at index 0 was
\* navigate(-1), and the cursor is still 0
C8_Witness ==
    /\ op = "navigate_previous"
    /\ ops = 1
    /\ current_index = 0
    /\ find_first_unannotated(texts, annotations) = 0
    /\ ~unsaved_changes

\* C10: a reloadFromRemote whose download succeeds leaves the local file
\* equal to the remote content and the Annotation Map equal to the map
\* parsed from that file, so nothing of the earlier map survives; the map
\* is replaced by a parsed file only at startup and by this user action.
C10_ReloadReplacesMap ==
    [][ /\ op' = "reload" /\ ok' =>
              /\ localFile' = FileOf(remote)
              /\ annotations' = load_annotations_from_csv(FileOf(remote))
              /\ calls' = <<"download", "load">>
        /\ "load" \in Range(calls') => op' \in {"load_map", "reload"}
      ]_vars
\* a successful reload after an edit that was captured but never saved: the
\* map is the parsed remote content and no longer holds the edit
C10_Witness ==
    /\ op = "reload" /\ ok
    /\ unsaved_changes
    /\ current_index = 1
    /\ widget = Get(annotations, DisplayedId(current_index), <<>>)
    /\ annotations = load_annotations_from_csv(FileOf(remote))
    /\ Get(annotations, texts[1], <<>>) = <<CatY>>
    /\ localFile = FileOf(remote)

\* equality of maps up to key order and label order within a list
SameLabels(l1, l2) == Len(l1) = Len(l2) /\ Range(l1) = Range(l2)
SameMapModuloOrder(m1, m2) ==
    /\ Keys(m1) = Keys(m2)
    /\ \A k \in Keys(m1) : SameLabels(Get(m1, k, <<>>), Get(m2, k, <<>>))

\* C9: round-trip law: for every map M, loading the file that saving M
\* wrote yields a map equal to M up to label order and key order,
\* including the empty map, keys with an empty label list and ids that are
\* digit strings.
C9_RoundTrip ==
    pc = "codec_loaded" => SameMapModuloOrder(annotations, codec_input)

\* C11: remote unavailability is permanent for the session: the Drive handle
\* is resolved in the first startup step and by no later step; when it came
\* out unavailable, no later step downloads or uploads or changes the remote
\* object, save_to_drive and the re-fetch report failure, and navigation and
\* save_to_local_file act as they do with a remote: the cursor moves by one
\* within the corpus, and a local save that meets no I/O error writes the
\* whole map and clears the flag when the widget shows the stored list.
C11_UnavailableForSession ==
    [][ /\ op' = "init_drive" <=> pc = "boot"
        /\ pc # "boot" => drive_service' = drive_service /\ drive_file_id' = drive_file_id
        /\ pc # "boot" /\ ~RemoteAvailable =>
              /\ \A i \in 1..Len(calls') : calls'[i] \notin {"download", "upload"}
              /\ remote' = remote
              /\ op' \in {"save_remote", "reload"} => ~ok'
              /\ op' = "reload" => localFile' = localFile /\ annotations' = annotations
              /\ op' = "navigate_next" =>
                    current_index' = IF current_index + 1 < Len(texts)
                                     THEN current_index + 1 ELSE current_index
              /\ op' = "navigate_previous" =>
                    current_index' = IF current_index > 0
                                     THEN current_index - 1 ELSE current_index
              /\ op' = "save_local" /\ faults' = faults =>
                    /\ ok'
                    /\ localFile' = FileOf(ToCsv(annotations'))
                    /\ Get(annotations', DisplayedId(current_index), <<>>) = widget
                    /\ ~unsaved_changes'
      ]_vars
\* a session without Drive that navigated and saved locally, and whose
\* re-fetch then failed without a download
C11_Witness ==
    /\ op = "reload" /\ ~ok /\ calls = <<>>
    /\ ~drive_service
    /\ current_index = 2
    /\ ~unsaved_changes
    /\ Keys(annotations) = {texts[1], texts[2]}
    /\ localFile = FileOf(ToCsv(annotations))

\* C12, as stated: with working credentials and a folder holding no object
\* of the expected name, resolving the handle returns a file handle (of a
\* placeholder it created), so that a later save_to_drive can upload.
C12_PlaceholderCreated_AsStated ==
    pc # "boot" /\ remoteKind = "nofile" => drive_service /\ drive_file_id

\* C12, amended: with working credentials and a folder holding no object of
\* the expected name, resolving the handle yields the service and no file
\* id and creates nothing; every later save_to_drive saves locally, uploads
\* nothing and reports failure, and the folder never gets an object.
C12_NoPlaceholder ==
    pc # "boot" /\ remoteKind = "nofile" =>
        /\ drive_service /\ ~drive_file_id
        /\ remote = <<>>
        /\ op = "save_remote" => ~ok /\ calls = <<"save">>
\* save_to_drive in a session whose folder held no file: the map went to the
\* local file and the upload was refused
C12_Witness ==
    /\ remoteKind = "nofile"
    /\ op = "save_remote" /\ ~ok
    /\ faults = 0
    /\ widget # <<>>
    /\ Get(annotations, DisplayedId(current_index), <<>>) = widget
    /\ localFile = FileOf(ToCsv(annotations))
    /\ ~unsaved_changes

\* C13: at session start the cursor is the index of the first record, in
\* corpus order, whose id is unannotated in the loaded map (key absent or
\* label list empty), and it is 0 when every record is annotated.
C13_StartCursor ==
    op = "init_cursor" =>
        LET unannotated == {i \in 0..(Len(texts) - 1) :
                               \/ texts[i + 1] \notin Keys(annotations)
                               \/ Get(annotations, texts[i + 1], <<>>) = <<>>} IN
        IF unannotated = {} THEN current_index = 0
        ELSE /\ current_index \in unannotated
             /\ \A j \in unannotated : current_index <= j
\* the loaded map has a key for every record, the last one with an empty
\* list: the session starts on that record
C13_Witness ==
    /\ op = "init_cursor"
    /\ Keys(annotations) = Range(texts)
    /\ current_index = 2
    /\ Get(annotations, texts[3], CatX) = <<>>

\* C14: the annotated count shown as progress is the number of keys of the
\* map whose label list has at least one label: a key with an empty list is
\* not counted, and neither is a record whose id is no key.
C14_AnnotatedCount ==
    pc = "viewing" =>
        LET labelled == {k \in Keys(annotations) : Get(annotations, k, <<>>) # <<>>}
            cleared == {k \in Keys(annotations) : Get(annotations, k, CatX) = <<>>}
        IN /\ done(annotations) = Cardinality(labelled)
           /\ done(annotations) = Cardinality(Keys(annotations)) - Cardinality(cleared)
\* a map with a labelled key and a key whose list was cleared, next to a
\* record that is no key: one record counts
C14_Witness ==
    /\ pc = "viewing"
    /\ done(annotations) = 1
    /\ Cardinality(Keys(annotations)) = 2
    /\ Keys(annotations) \subseteq Range(texts)
    /\ \E k \in Keys(annotations) : Get(annotations, k, CatX) = <<>>

\* C15: load_annotations_from_csv treats a malformed row as a soft error:
\* the row is skipped and every remaining valid row of the file is still
\* loaded into the map. Stated for the rows that have the header's two
\* fields and a non-empty label field: each of them is a key of the loaded
\* map, with the labels of its row.
C15_MalformedRowSkipped ==
    /\ op = "load_map" /\ localFile.exists /\ localFile.data # <<>>
    /\ Head(localFile.data) = <<ID_COL, KAT_COL>>
    =>
        \A i \in 2..Len(localFile.data) :
            LET row == localFile.data[i] IN
            Len(row) = 2 /\ row[2] # <<>> =>
                /\ row[1] \in Keys(annotations)
                /\ Get(annotations, row[1], <<>>) = Split(row[2], ",")

\* C16: when save_to_local_file fails with a local I/O error, the map in
\* memory is retained, the selection captured at the start of that save
\* included; the flag is not cleared (it stays raised if it was, and is
\* raised if the capture changed the map); and a retried save that succeeds
\* right after writes that whole map and clears the flag.
C16_FailedSaveKeepsState ==
    [][ /\ op' = "save_local" /\ ~ok' =>
              LET id == DisplayedId(current_index) IN
              /\ Get(annotations', id, <<>>) = widget
              /\ Keys(annotations) \subseteq Keys(annotations')
              /\ \A k \in Keys(annotations) \ {id} :
                    Get(annotations', k, <<>>) = Get(annotations, k, <<>>)
              /\ unsaved_changes \/ Get(annotations, id, <<>>) # widget => unsaved_changes'
        /\ op = "save_local" /\ ~ok /\ op' = "save_local" /\ ok' =>
              /\ annotations' = annotations
              /\ localFile' = FileOf(ToCsv(annotations))
              /\ ~unsaved_changes'
      ]_vars
\* a failed save of a map that holds the selection it captured: the flag is
\* up and the local file does not have the selection
C16_Witness ==
    /\ op = "save_local" /\ ~ok
    /\ unsaved_changes
    /\ widget # <<>>
    /\ Get(annotations, DisplayedId(current_index), <<>>) = widget
    /\ DisplayedId(current_index) \notin Keys(load_annotations_from_csv(localFile))

C18_NoUploadAfterFailedLocalSave ==
    op = "save_remote" /\ "upload" \in Range(calls) =>
        localFile = FileOf(ToCsv(annotations))

\* C19: after a successful re-fetch, a navigation or a save_to_local_file
\* that follows with no user edit in between does not bring a discarded
\* edit back: the map still equals the map parsed from the downloaded
\* content, also when the displayed record's widget held an uncaptured
\* selection at the moment of the re-fetch.
C19_ReloadDiscardsEdits ==
    [][ op = "reload" /\ ok /\ op' \in Navigations \cup {"save_local"} =>
            /\ annotations = load_annotations_from_csv(FileOf(remote))
            /\ annotations' = annotations
      ]_vars

\* C20: dirty-flag soundness: in every state between user actions in which
\* unsaved_changes is false, the map in memory equals the map
\* load_annotations_from_csv reads from the local file (no file read as the
\* empty map); and the flag goes from raised to cleared only in a step
\* whose local save succeeded, i.e. left the file written from the map.
C20_DirtyFlagSound ==
    [][ /\ pc' = "viewing" /\ ~unsaved_changes' =>
              SameMap(annotations', load_annotations_from_csv(localFile'))
        /\ unsaved_changes /\ ~unsaved_changes' =>
              /\ op' \in {"save_local", "save_remote"}
              /\ localFile' = FileOf(ToCsv(annotations'))
      ]_vars

\* C21: key-set invariant: a navigation, save_to_local_file and
\* save_to_drive never remove a key from the map and add only keys that are
\* ids of corpus records (a record whose labels were cleared keeps its key,
\* with an empty list); hence in every state whose map has only corpus ids
\* as keys, the annotated count is at most the number of records.
C21_KeySet ==
    [][ /\ op' \in Navigations \cup {"save_local", "save_remote"} =>
              /\ Keys(annotations) \subseteq Keys(annotations')
              /\ Keys(annotations') \ Keys(annotations) \subseteq Range(texts)
              /\ Get(annotations, DisplayedId(current_index), <<>>) # <<>> /\ widget = <<>> =>
                    /\ DisplayedId(current_index) \in Keys(annotations')
                    /\ Get(annotations', DisplayedId(current_index), CatX) = <<>>
        /\ Keys(annotations') \subseteq Range(texts) => done(annotations') <= Len(texts)
      ]_vars
\* the downloaded label of record 1 was cleared and captured by a
\* navigation, and a later navigation added record 2: both are keys, one
\* with an empty list
C21_Witness ==
    /\ op = "navigate_next"
    /\ current_index = 2
    /\ Keys(annotations) = {texts[1], texts[2]}
    /\ Get(annotations, texts[1], CatX) = <<>>
    /\ Get(annotations, texts[2], <<>>) # <<>>
    /\ done(annotations) = 1

====
